---- MODULE Spec2Model ----
(***************************************************************************)
(* DubeBox (src/app.py): a Flask application with three routes that pass   *)
(* straight through to one shared Redis client.  The model has the Redis   *)
(* database and one record per worker thread of the (threaded) Flask       *)
(* server holding the request it is serving, the position of its handler   *)
(* and its response.  Whether the Redis server is reachable is decided     *)
(* anew at every Redis call.                                               *)
(***************************************************************************)
EXTENDS Integers, Sequences, FiniteSets, TLC

\* Number of requests the server handles concurrently.
NumThreads == 2

Threads == 1..NumThreads

\* Strings are sequences of code points: 97 is "a", 233 is "e-acute".
KeyInputs == {<<>>, <<97>>, <<233>>}
ValueInputs == {<<>>, <<97>>, <<233, 97>>}

\* Python's None / an absent value is <<>>, a present value x is <<x>>.
None == <<>>
Some(x) == <<x>>

--------------------------------------------------------------------------
\* redis-py encodes str arguments as UTF-8 on the way out and, with
\* decode_responses=True, decodes replies as UTF-8 on the way back.

EncodeChar(c) == IF c < 128 THEN <<c>> ELSE <<192 + (c \div 64), 128 + (c % 64)>>

RECURSIVE Encode(_)
Encode(s) == IF s = <<>> THEN <<>> ELSE EncodeChar(Head(s)) \o Encode(Tail(s))

RECURSIVE Decode(_)
Decode(b) ==
    IF b = <<>> THEN <<>>
    ELSE IF b[1] < 128 THEN <<b[1]>> \o Decode(Tail(b))
    ELSE <<(b[1] - 192) * 64 + (b[2] - 128)>> \o Decode(Tail(Tail(b)))

--------------------------------------------------------------------------
\* The Redis commands the handlers issue, on a database s that maps byte
\* strings to byte strings.

\* A mutant: SET that replaces the whole database by the one binding.
RedisSetFlushing(s, k, v) == [x \in {Encode(k)} |-> Encode(v)]

\* A mutant: SETRANGE at offset 0, which keeps the tail of a longer old value.
RedisSetRange(s, k, v) ==
    [x \in DOMAIN s \cup {Encode(k)} |->
        IF x # Encode(k) THEN s[x]
        ELSE IF x \in DOMAIN s /\ Len(s[x]) > Len(Encode(v))
             THEN Encode(v) \o SubSeq(s[x], Len(Encode(v)) + 1, Len(s[x]))
             ELSE Encode(v)]

\* A mutant: SET with its arguments swapped.
RedisSetSwapped(s, k, v) ==
    [x \in DOMAIN s \cup {Encode(v)} |-> IF x = Encode(v) THEN Encode(k) ELSE s[x]]

\* r.set(key, value): SET overwrites the binding of key, nothing else.
RedisSet(s, k, v) ==
    [x \in DOMAIN s \cup {Encode(k)} |-> IF x = Encode(k) THEN Encode(v) ELSE s[x]]

\* A mutant: GET that creates an empty binding for a missing key.
RedisGetCreating(s, k) ==
    [x \in DOMAIN s \cup {Encode(k)} |-> IF x \in DOMAIN s THEN s[x] ELSE <<>>]

\* r.get(key) leaves the database as it is.
RedisGetEffect(s, k) == s

\* r.get(key): the decoded value, or None for a missing key.
RedisGet(s, k) == IF Encode(k) \in DOMAIN s THEN Some(Decode(s[Encode(k)])) ELSE None

--------------------------------------------------------------------------
\* Routing.  The string converter of <key> and <value> matches one or more
\* characters other than "/", so a request with an empty segment matches no
\* rule and the handler is never called.

\* A mutant: converters that also accept the empty segment.
RouteAnySegment(req) == req.op

Route(req) ==
    CASE req.op = "home" -> "home"
      [] req.op = "set"  -> IF req.key # <<>> /\ req.value # <<>> THEN "set" ELSE "none"
      [] req.op = "get"  -> IF req.key # <<>> THEN "get" ELSE "none"

Requests ==
    {[op |-> "home", key |-> <<>>, value |-> <<>>]}
    \cup [op : {"set"}, key : KeyInputs, value : ValueInputs]
    \cup [op : {"get"}, key : KeyInputs, value : {<<>>}]

--------------------------------------------------------------------------
\* Responses: the status code and the fields of the JSON body.

NoResponse == [status |-> 0, kind |-> "none", key |-> <<>>, value |-> None]
NotFound == [status |-> 404, kind |-> "error", key |-> <<>>, value |-> None]
\* An exception that leaves a view function is answered with 500.
InternalServerError == [status |-> 500, kind |-> "error", key |-> <<>>, value |-> None]

HomeResponse == [status |-> 200, kind |-> "welcome", key |-> <<>>, value |-> None]

\* A mutant: set_value that confirms whatever r.set did.
SetResponseSwallowing(exc, k, v) ==
    [status |-> 200, kind |-> "stored", key |-> k, value |-> Some(v)]

SetResponse(exc, k, v) ==
    IF exc THEN InternalServerError
    ELSE [status |-> 200, kind |-> "stored", key |-> k, value |-> Some(v)]

\* A mutant: get_value that answers "not found" when r.get raises.
GetResponseMasking(exc, k, res) ==
    [status |-> 200, kind |-> "value", key |-> k, value |-> IF exc THEN None ELSE res]

\* A mutant: get_value that reports a missing key as an error.
GetResponseStrict(exc, k, res) ==
    IF exc THEN InternalServerError
    ELSE IF res = None THEN NotFound
    ELSE [status |-> 200, kind |-> "value", key |-> k, value |-> res]

GetResponse(exc, k, res) ==
    IF exc THEN InternalServerError
    ELSE [status |-> 200, kind |-> "value", key |-> k, value |-> res]

--------------------------------------------------------------------------
VARIABLES
    store,      \* the Redis database: encoded key -> encoded value
    th,         \* per worker thread: request, handler position, response
    lastSet,    \* history: per key, the value of the SET applied last
    lastWriter  \* history: per key, the thread in flight whose SET was applied last

vars == <<store, th, lastSet, lastWriter>>

\* pc: "idle", "called" (the handler's Redis call has returned or raised),
\* "done" (response produced).
\* exc, res: whether the Redis call raised, and what r.get returned.
\* down, seen, calls: history of the Redis call: the server was unreachable;
\* the value the last applied SET of the key had stored when the server
\* took the call; the number of Redis calls of the request.
IdleThread ==
    [pc |-> "idle", op |-> "none", key |-> <<>>, value |-> <<>>,
     endpoint |-> "none", exc |-> FALSE, res |-> None, resp |-> NoResponse,
     down |-> FALSE, seen |-> None, calls |-> 0]

Init ==
    /\ store = [x \in {} |-> <<>>]
    /\ th = [t \in Threads |-> IdleThread]
    /\ lastSet = [k \in KeyInputs |-> None]
    /\ lastWriter = [k \in KeyInputs |-> 0]

\* The value get(k) would read from database s.
View(s, k) == RedisGet(s, k)

\* Thread t has no request in hand.
Free(t) == th[t].pc = "idle"

\* Thread t takes request req, which the rules route to endpoint ep.
Accept(t, req, ep) ==
    [IdleThread EXCEPT !.op = req.op, !.key = req.key, !.value = req.value,
                       !.endpoint = ep]

\* lastWriter once thread t has left its request.
Released(t) == [k \in KeyInputs |-> IF lastWriter[k] = t THEN 0 ELSE lastWriter[k]]

\* A request no rule matches is answered 404; no view function runs.
NoRoute(t, req) ==
    /\ Free(t) /\ Route(req) = "none"
    /\ th' = [th EXCEPT ![t] =
                [Accept(t, req, "none") EXCEPT !.pc = "done", !.resp = NotFound]]
    /\ UNCHANGED <<store, lastSet, lastWriter>>

\* home(): a static payload.
Home(t, req) ==
    /\ Free(t) /\ Route(req) = "home"
    /\ th' = [th EXCEPT ![t] =
                [Accept(t, req, "home") EXCEPT !.pc = "done", !.resp = HomeResponse]]
    /\ UNCHANGED <<store, lastSet, lastWriter>>

\* set_value up to line 18: r.set(key, value); raises when Redis is unreachable.
SetCall(t, req) ==
    /\ Free(t) /\ Route(req) = "set"
    /\ \E reachable \in BOOLEAN :
        /\ store' = IF reachable THEN RedisSet(store, req.key, req.value) ELSE store
        /\ th' = [th EXCEPT ![t] =
                    [Accept(t, req, "set") EXCEPT !.pc = "called", !.exc = ~reachable,
                                                  !.down = ~reachable, !.calls = 1]]
        /\ lastSet' = IF reachable THEN [lastSet EXCEPT ![req.key] = Some(req.value)]
                       ELSE lastSet
        /\ lastWriter' = IF reachable THEN [lastWriter EXCEPT ![req.key] = t]
                          ELSE lastWriter

\* set_value, line 19: the confirmation, or the error of the raised exception.
SetReturn(t) ==
    /\ th[t].pc = "called" /\ th[t].endpoint = "set"
    /\ th' = [th EXCEPT ![t].pc = "done",
                        ![t].resp = SetResponse(th[t].exc, th[t].key, th[t].value)]
    /\ UNCHANGED <<store, lastSet, lastWriter>>

\* get_value up to line 23: value = r.get(key).
GetCall(t, req) ==
    /\ Free(t) /\ Route(req) = "get"
    /\ \E reachable \in BOOLEAN :
        /\ store' = IF reachable THEN RedisGetEffect(store, req.key) ELSE store
        /\ th' = [th EXCEPT ![t] =
                    [Accept(t, req, "get") EXCEPT
                        !.pc = "called", !.exc = ~reachable,
                        !.res = IF reachable THEN RedisGet(store, req.key) ELSE None,
                        !.down = ~reachable,
                        !.seen = IF reachable THEN lastSet[req.key] ELSE None,
                        !.calls = 1]]
    /\ UNCHANGED <<lastSet, lastWriter>>

\* get_value, line 24: the key and the value read.
GetReturn(t) ==
    /\ th[t].pc = "called" /\ th[t].endpoint = "get"
    /\ th' = [th EXCEPT ![t].pc = "done",
                        ![t].resp = GetResponse(th[t].exc, th[t].key, th[t].res)]
    /\ UNCHANGED <<store, lastSet, lastWriter>>

\* The response is sent and the thread is free for the next request.
Deliver(t) ==
    /\ th[t].pc = "done"
    /\ th' = [th EXCEPT ![t] = IdleThread]
    /\ lastWriter' = Released(t)
    /\ UNCHANGED <<store, lastSet>>

Next ==
    \/ \E t \in Threads, req \in Requests : NoRoute(t, req)
    \/ \E t \in Threads, req \in Requests : Home(t, req)
    \/ \E t \in Threads, req \in Requests : SetCall(t, req)
    \/ \E t \in Threads : SetReturn(t)
    \/ \E t \in Threads, req \in Requests : GetCall(t, req)
    \/ \E t \in Threads : GetReturn(t)
    \/ \E t \in Threads : Deliver(t)

Spec == Init /\ [][Next]_vars

--------------------------------------------------------------------------
\* Threads by the request they serve.
IsGet(t) == th[t].endpoint = "get"
IsSet(t) == th[t].endpoint = "set"
Done(t) == th[t].pc = "done"

\* Steps by what thread t does in them: the r.set of a set request, the
\* return of set_value, any step of a welcome or get request.
SetCallStep(t) ==
    th[t].pc = "idle" /\ th'[t].pc = "called" /\ th'[t].endpoint = "set"
SetReturnStep(t) ==
    th[t].pc = "called" /\ th'[t].pc = "done" /\ th'[t].endpoint = "set"
ReadOnlyStep(t) ==
    th'[t] # th[t] /\ th'[t].op \in {"home", "get"}

\* C1: read-your-write.  A get(k) whose r.get found the server reachable,
\* after some set(k, v) was applied and with v the value of the last set
\* applied to k, answers 200 with key k and value v.
ReadYourWrite ==
    \A t \in Threads :
        (IsGet(t) /\ Done(t) /\ ~th[t].down /\ th[t].seen # None)
            => /\ th[t].resp.status = 200
               /\ th[t].resp.key = th[t].key
               /\ th[t].resp.value = th[t].seen

\* A get has returned a non-ASCII value that a set stored before it.
ReadYourWriteWitness ==
    \E t \in Threads :
        /\ IsGet(t) /\ Done(t) /\ ~th[t].down
        /\ th[t].seen = Some(<<233, 97>>)
        /\ th[t].resp.value = Some(<<233, 97>>)

\* C2: a get(k) that reaches the server while no set of k has ever been
\* applied answers the normal 200 response with value null, not an error.
MissIsNormal ==
    \A t \in Threads :
        (IsGet(t) /\ Done(t) /\ ~th[t].down /\ th[t].seen = None)
            => /\ th[t].resp.status = 200
               /\ th[t].resp.kind = "value"
               /\ th[t].resp.key = th[t].key
               /\ th[t].resp.value = None

\* A get of a never-set key has answered null while another key is bound.
MissIsNormalWitness ==
    \E t \in Threads :
        /\ IsGet(t) /\ Done(t) /\ ~th[t].down /\ th[t].seen = None
        /\ th[t].resp.status = 200 /\ th[t].resp.value = None
        /\ DOMAIN store # {}

\* C3: a get(k) whose r.get found the server unreachable answers a 5xx
\* error, for every key, never the normal response with value null.
BackendErrorSurfaced ==
    \A t \in Threads :
        (IsGet(t) /\ Done(t) /\ th[t].down)
            => /\ th[t].resp.status >= 500
               /\ th[t].resp.kind = "error"

\* A get of a key that is bound in the database has been answered 500.
BackendErrorSurfacedWitness ==
    \E t \in Threads :
        /\ IsGet(t) /\ Done(t) /\ th[t].down
        /\ th[t].resp.status = 500
        /\ Encode(th[t].key) \in DOMAIN store

\* C4: write-through.  An r.set the server did not take leaves the database
\* unchanged; set_value answers the confirmation (echoing k and v) only
\* when the server took its r.set, and a 5xx error when it did not.
WriteThrough ==
    [][\A t \in Threads :
          /\ SetCallStep(t) /\ th'[t].down
                => store' = store
          /\ SetReturnStep(t)
                => /\ th'[t].resp.status = 200
                        => /\ ~th[t].down
                           /\ th'[t].resp.key = th[t].key
                           /\ th'[t].resp.value = Some(th[t].value)
                   /\ th[t].down
                        => /\ th'[t].resp.status >= 500
                           /\ th'[t].resp.kind = "error"]_vars

\* A set has failed with 500 and its value is not what get(k) would read.
WriteThroughWitness ==
    \E t \in Threads :
        /\ IsSet(t) /\ Done(t) /\ th[t].down
        /\ th[t].resp.status = 500
        /\ View(store, th[t].key) # Some(th[t].value)

LastBackendCallWins ==
    /\ \A k \in KeyInputs :
        /\ View(store, k) = lastSet[k]
        /\ lastWriter[k] # 0
            => /\ IsSet(lastWriter[k])
               /\ th[lastWriter[k]].key = k
               /\ th[lastWriter[k]].pc \in {"called", "done"}
               /\ View(store, k) = Some(th[lastWriter[k]].value)
    /\ \A t1, t2 \in Threads :
        (/\ t1 # t2 /\ IsSet(t1) /\ IsSet(t2) /\ Done(t1) /\ Done(t2)
         /\ th[t1].key = th[t2].key
         /\ th[t1].resp.status = 200 /\ th[t2].resp.status = 200
         /\ lastWriter[th[t1].key] \in {t1, t2})
            => View(store, th[t1].key) = Some(th[lastWriter[th[t1].key]].value)

\* Two sets of one key with different values are both done; the one applied
\* first wrote the longer value, the one applied last the shorter one.
LastBackendCallWinsWitness ==
    \E t1, t2 \in Threads :
        /\ t1 # t2 /\ IsSet(t1) /\ IsSet(t2) /\ Done(t1) /\ Done(t2)
        /\ th[t1].key = th[t2].key
        /\ th[t1].value = <<233, 97>> /\ th[t2].value = <<97>>
        /\ th[t1].resp.status = 200 /\ th[t2].resp.status = 200
        /\ lastWriter[th[t1].key] = t2
        /\ View(store, th[t1].key) = Some(<<97>>)

\* C9: no step of a welcome request or of a get request changes the
\* database: every key reads the same before and after, and a get of a
\* missing key creates no binding.
ReadsChangeNothing ==
    [][\A t \in Threads :
          ReadOnlyStep(t)
            => /\ DOMAIN store' = DOMAIN store
               /\ \A j \in KeyInputs : View(store', j) = View(store, j)]_vars

\* A get of a missing key is done and the key is still missing.
ReadsChangeNothingWitness ==
    \E t \in Threads :
        /\ IsGet(t) /\ Done(t) /\ ~th[t].down
        /\ th[t].res = None
        /\ Encode(th[t].key) \notin DOMAIN store

\* C10: the r.set of set(k, v) leaves what get(j) reads unchanged for
\* every key j other than k and, when the server takes it, makes get(k)
\* read exactly v, whatever k was bound to before.
SetChangesOnlyItsKey ==
    [][\A t \in Threads :
          SetCallStep(t)
            => /\ \A j \in KeyInputs \ {th'[t].key} : View(store', j) = View(store, j)
               /\ ~th'[t].down => View(store', th'[t].key) = Some(th'[t].value)]_vars

\* A set has overwritten the different value that another set in flight
\* had bound to its key, while another key is bound.
SetChangesOnlyItsKeyWitness ==
    \E t, u \in Threads :
        /\ IsSet(t) /\ IsSet(u) /\ ~th[t].down /\ ~th[u].down
        /\ th[t].pc = "called" /\ th[u].pc \in {"called", "done"}
        /\ th[t].key = th[u].key /\ th[t].value # th[u].value
        /\ lastWriter[th[t].key] = t
        /\ View(store, th[t].key) = Some(th[t].value)
        /\ \E j \in KeyInputs \ {th[t].key} : View(store, j) # None

====
